---- MODULE Spec2Model ----
(***************************************************************************)
(* A model of diffusiontools/tiling.py: StableDiffusionTilingPipeline's    *)
(* __call__ and the tile geometry functions it uses.                       *)
(*                                                                         *)
(* One behaviour is one call of the pipeline.  The arguments of the call   *)
(* are the record `args`, fixed in the initial state; the other variables  *)
(* are the locals of __call__.  Tensors are functions from latent cells    *)
(* <<y, x>> to symbolic values (batch and channel axes are carried along   *)
(* unchanged by every operation of the code, so they are left out):        *)
(*   <<"randn", seed, h, w, y, x>>  element (y, x) of torch.randn of shape *)
(*                                  (h, w) from a generator seeded `seed`  *)
(*   <<"prev_sample", i>>           output of scheduler.step at step i     *)
(*   <<"nan">>                      a NaN / infinite float                 *)
(* Guidance scales are in tenths (75 is 7.5).                              *)
(***************************************************************************)
EXTENDS Integers, Sequences, FiniteSets, TLC

\* Bounds of the explored calls.
MaxGrid == 2
MaxSteps == 2
MaxSeed == 2
MaxRerolls == 2

\* The latent downscale factor of the autoencoder.
Downscale == 8

Range(n) == 0 .. (n - 1)

(***************************************************************************)
(* Coordinate transform                                                    *)
(***************************************************************************)

\* The overlap taken off once instead of once per tile.
tile2pixel_indices_OverlapOnce(tile_row, tile_col, tile_width, tile_height, tile_row_overlap, tile_col_overlap) ==
    LET px_row_init == IF tile_row = 0 THEN 0 ELSE tile_row * tile_height - tile_row_overlap
        px_col_init == IF tile_col = 0 THEN 0 ELSE tile_col * tile_width - tile_col_overlap
    IN  <<px_row_init, px_row_init + tile_height, px_col_init, px_col_init + tile_width>>

\* The stride taken for the tile size: the overlap forgotten.
tile2pixel_indices_NoOverlap(tile_row, tile_col, tile_width, tile_height, tile_row_overlap, tile_col_overlap) ==
    <<tile_row * tile_height, tile_row * tile_height + tile_height,
      tile_col * tile_width, tile_col * tile_width + tile_width>>

tile2pixel_indices(tile_row, tile_col, tile_width, tile_height, tile_row_overlap, tile_col_overlap) ==
    LET px_row_init == IF tile_row = 0 THEN 0 ELSE tile_row * (tile_height - tile_row_overlap)
        px_row_end  == px_row_init + tile_height
        px_col_init == IF tile_col = 0 THEN 0 ELSE tile_col * (tile_width - tile_col_overlap)
        px_col_end  == px_col_init + tile_width
    IN  <<px_row_init, px_row_end, px_col_init, px_col_end>>

\* Python's // is floor division, as is \div.
pixel2latent_indices(px_row_init, px_row_end, px_col_init, px_col_end) ==
    <<px_row_init \div Downscale, px_row_end \div Downscale,
      px_col_init \div Downscale, px_col_end \div Downscale>>

tile2latent_indices(tile_row, tile_col, tile_width, tile_height, tile_row_overlap, tile_col_overlap) ==
    LET px == tile2pixel_indices(tile_row, tile_col, tile_width, tile_height, tile_row_overlap, tile_col_overlap)
    IN  pixel2latent_indices(px[1], px[2], px[3], px[4])

\* ligo.segments.segment(a, b): the pair, ordered.
segment(a, b) == IF a <= b THEN <<a, b>> ELSE <<b, a>>

\* The outcome of a subtraction that raised ValueError.
NoSegment == << >>

\* segment.__sub__: what is left of self; it raises ValueError when that is
\* not exactly one segment (self inside other, or other strictly inside self).
segment_sub(self, other) ==
    IF self = NoSegment THEN NoSegment
    ELSE IF self[2] <= other[1] \/ self[1] >= other[2] THEN self
    ELSE IF (other[1] <= self[1] /\ other[2] >= self[2])
            \/ (self[1] < other[1] /\ self[2] > other[2]) THEN NoSegment
    ELSE IF self[1] < other[1] THEN <<self[1], other[1]>>
    ELSE <<other[2], self[2]>>

\* The tiles of a grid in row-major order, as every loop of the code visits them.
TileSeq(rows, columns) ==
    [k \in 1 .. rows * columns |-> <<(k - 1) \div columns, (k - 1) % columns>>]

\* The condition under which another tile clips the current one.
ClipsTile(row, column, tile_row, tile_col) == row /= tile_row /\ column /= tile_col

\* The clipping loop from its k-th tile on; clips[k] is that tile's inclusive
\* latent region, or << >> for a tile the condition skips.
RECURSIVE ClipSegments(_, _, _, _)
ClipSegments(k, clips, row_segment, col_segment) ==
    IF k > Len(clips) THEN <<row_segment, col_segment>>
    ELSE IF clips[k] = << >> THEN ClipSegments(k + 1, clips, row_segment, col_segment)
    ELSE ClipSegments(k + 1, clips,
                      segment_sub(row_segment, segment(clips[k][1], clips[k][2])),
                      segment_sub(col_segment, segment(clips[k][3], clips[k][4])))

\* The exclusive region, or NoSegment when a subtraction raised ValueError.
tile2latent_exclusive_indices(tile_row, tile_col, tile_width, tile_height, tile_row_overlap, tile_col_overlap, rows, columns) ==
    LET incl == tile2latent_indices(tile_row, tile_col, tile_width, tile_height, tile_row_overlap, tile_col_overlap)
        tiles == TileSeq(rows, columns)
        clips == [k \in DOMAIN tiles |->
                    IF ClipsTile(tiles[k][1], tiles[k][2], tile_row, tile_col)
                    THEN tile2latent_indices(tiles[k][1], tiles[k][2], tile_width, tile_height, tile_row_overlap, tile_col_overlap)
                    ELSE << >>]
        segs == ClipSegments(1, clips, segment(incl[1], incl[2]), segment(incl[3], incl[4]))
    IN  IF segs[1] = NoSegment \/ segs[2] = NoSegment THEN NoSegment
        ELSE <<segs[1][1], segs[1][2], segs[2][1], segs[2][2]>>

(***************************************************************************)
(* Tensors                                                                 *)
(***************************************************************************)

Cells(h, w) == Range(h) \X Range(w)

\* torch.randn((h, w), generator seeded `seed`).
randn(seed, h, w) == [c \in Cells(h, w) |-> <<"randn", seed, h, w, c[1], c[2]>>]

NaN == <<"nan">>

\* A Python slice bound on an axis of length n: negative bounds count from
\* the end, and bounds are clipped to 0 .. n.
SliceIndex(idx, n) ==
    IF idx < 0 THEN (IF idx + n < 0 THEN 0 ELSE idx + n)
    ELSE IF idx > n THEN n ELSE idx

\* The cells start:stop selects on an axis of length n, as <<first, end>>.
Slice(start, stop, n) ==
    LET s == SliceIndex(start, n)
        e == SliceIndex(stop, n)
    IN  <<s, IF e < s THEN s ELSE e>>

\* The cells t[row_init:row_end, col_init:col_end] selects in a tensor of
\* shape `shape`, as <<row first, row end, col first, col end>>.
SliceRegion(shape, row_init, row_end, col_init, col_end) ==
    LET r == Slice(row_init, row_end, shape[1])
        c == Slice(col_init, col_end, shape[2])
    IN  <<r[1], r[2], c[1], c[2]>>

InRegion(cell, reg) ==
    reg[1] <= cell[1] /\ cell[1] < reg[2] /\ reg[3] <= cell[2] /\ cell[2] < reg[4]

RegionShape(reg) == <<reg[2] - reg[1], reg[4] - reg[3]>>

\* Whether a source axis of length s can be written into (or added onto) a
\* target axis of length t: equal, or broadcast from length 1.
FitsAxis(s, t) == s = t \/ s = 1

Fits(src_shape, reg) ==
    /\ FitsAxis(src_shape[1], reg[2] - reg[1])
    /\ FitsAxis(src_shape[2], reg[4] - reg[3])

\* The index in a source of shape src_shape that lands on `cell` of region reg.
SourceIndex(cell, reg, src_shape) ==
    <<IF src_shape[1] = 1 THEN 0 ELSE cell[1] - reg[1],
      IF src_shape[2] = 1 THEN 0 ELSE cell[2] - reg[3]>>

\* t[region] = src
SetSlice(t, reg, src, src_shape) ==
    [c \in DOMAIN t |-> IF InRegion(c, reg) THEN src[SourceIndex(c, reg, src_shape)] ELSE t[c]]

(***************************************************************************)
(* Blend weight mask                                                       *)
(***************************************************************************)

\* _gaussian_weights.  An entry of x_probs is exp(-(x-midpoint)^2 / latent_width^2
\* / (2*var)) / sqrt(2*pi*var), of y_probs likewise, and weights[y][x] is their
\* product: a positive number that decreases strictly as
\*     (x - mid_x)^2 / latent_width^2 + (y - mid_y)^2 / latent_height^2
\* grows.  The mask is kept as 4 * latent_width^2 * latent_height^2 times that
\* sum, an integer (twice a midpoint is an integer).
x_midpoint2(latent_width) == latent_width - 1
y_midpoint2(latent_height) == latent_height

gaussian_weights(tile_width, tile_height) ==
    LET latent_width  == tile_width \div Downscale
        latent_height == tile_height \div Downscale
        dx2(x) == (2 * x - x_midpoint2(latent_width)) * (2 * x - x_midpoint2(latent_width))
        dy2(y) == (2 * y - y_midpoint2(latent_height)) * (2 * y - y_midpoint2(latent_height))
    IN  [c \in Cells(latent_height, latent_width) |->
            dx2(c[2]) * latent_height * latent_height + dy2(c[1]) * latent_width * latent_width]

WeightsShape(tile_width, tile_height) == <<tile_height \div Downscale, tile_width \div Downscale>>

(***************************************************************************)
(* The calls explored                                                      *)
(***************************************************************************)

Seeds == 1 .. MaxSeed
Modes == {"full", "exclusive"}
NoGrid == << >>
NoEntry == << >>

\* A grid (list of lists) with entry f[<<row, col>>] at row, col (0-based).
Grid(rows, cols, f) == [r \in 1 .. rows |-> [c \in 1 .. cols |-> f[<<r - 1, c - 1>>]]]

GridShapes == (1 .. MaxGrid) \X (1 .. MaxGrid)

\* <<tile size, overlap>> in pixels along one axis: no overlap, half and two
\* thirds overlap, sizes and overlaps that are no multiple of 8, and a
\* negative overlap (tiles apart).
AxisGeoms == {<<8, 0>>, <<16, 8>>, <<24, 16>>, <<12, 4>>, <<12, 8>>, <<20, 8>>, <<16, -8>>}
\* <<row geometry, column geometry>> of the calls with seed directives.
SeedGeoms == {<<<<16, 8>>, <<16, 8>>>>, <<<<12, 8>>, <<16, 8>>>>}
\* <<start, end>> in pixels along one axis of a reroll region.
RerollRowSpans == {<<0, 16>>, <<8, 24>>, <<-16, -8>>}
RerollColSpans == {<<0, 16>>, <<8, 24>>}

BaseCall(rows, cols) ==
    [prompt |-> [is_list |-> TRUE, rows |-> [r \in 1 .. rows |-> cols]],
     num_inference_steps |-> 1,
     guidance_scale |-> 75,
     seed |-> 0,
     tile_height |-> 16, tile_width |-> 16,
     tile_row_overlap |-> 8, tile_col_overlap |-> 8,
     guidance_scale_tiles |-> NoGrid,
     seed_tiles |-> NoGrid,
     seed_tiles_mode |-> [is_str |-> TRUE, str |-> "full", list |-> NoGrid],
     seed_reroll_regions |-> [is_none |-> TRUE, list |-> << >>],
     scheduler |-> "DDIMScheduler"]

\* Every geometry, guidance on and off, every step count.
GeometryCalls ==
    { [BaseCall(s[1], s[2]) EXCEPT
          !.tile_height = gr[1], !.tile_row_overlap = gr[2],
          !.tile_width = gc[1], !.tile_col_overlap = gc[2],
          !.guidance_scale = gs, !.num_inference_steps = n] :
      s \in GridShapes, gr \in AxisGeoms, gc \in AxisGeoms, gs \in {10, 75},
      n \in 1 .. MaxSteps }

\* Both kinds of scheduler, on the default geometry.
SchedulerCalls ==
    { [BaseCall(s[1], s[2]) EXCEPT !.num_inference_steps = n, !.scheduler = sch] :
      s \in GridShapes, n \in 1 .. MaxSteps,
      sch \in {"DDIMScheduler", "LMSDiscreteScheduler"} }

\* Per-tile guidance scales, in tenths like guidance_scale.
TileScales == {20, 90}

\* Overrides <<tile, scale>> of the guidance scale on at most two tiles, two
\* tiles with scales that differ.
Overrides(rows, cols) ==
    LET one == (Range(rows) \X Range(cols)) \X TileScales
    IN  {{}} \cup { {a} : a \in one }
             \cup { {p[1], p[2]} : p \in { q \in one \X one : q[1][1] /= q[2][1] /\ q[1][2] < q[2][2] } }

GuidanceCallsOf(s) ==
    { [BaseCall(s[1], s[2]) EXCEPT
          !.guidance_scale = gs, !.num_inference_steps = MaxSteps,
          !.guidance_scale_tiles = Grid(s[1], s[2],
              [t \in Range(s[1]) \X Range(s[2]) |-> IF \E e \in o : e[1] = t
                         THEN <<(CHOOSE e \in o : e[1] = t)[2]>> ELSE NoEntry])] :
      gs \in {10, 75}, o \in Overrides(s[1], s[2]) }

\* A grid of per-tile guidance scales, the pipeline-wide guidance on and off.
GuidanceCalls == UNION { GuidanceCallsOf(s) : s \in GridShapes }

\* Seed directives <<tile, seed, mode>> on at most two tiles, two tiles with
\* seeds that differ.
Directives(rows, cols) ==
    LET one == (Range(rows) \X Range(cols)) \X Seeds \X Modes
    IN  {{}} \cup { {a} : a \in one }
             \cup { {p[1], p[2]} : p \in { q \in one \X one : q[1][1] /= q[2][1] /\ q[1][2] < q[2][2] } }

SeedingCallsOf(s) ==
    { [BaseCall(s[1], s[2]) EXCEPT
          !.tile_height = g[1][1], !.tile_row_overlap = g[1][2],
          !.tile_width = g[2][1], !.tile_col_overlap = g[2][2],
          !.seed_tiles = Grid(s[1], s[2],
              [t \in Range(s[1]) \X Range(s[2]) |-> IF \E e \in d : e[1] = t
                         THEN <<(CHOOSE e \in d : e[1] = t)[2]>> ELSE NoEntry]),
          !.seed_tiles_mode = [is_str |-> FALSE, str |-> "", list |-> Grid(s[1], s[2],
              [t \in Range(s[1]) \X Range(s[2]) |-> IF \E e \in d : e[1] = t
                         THEN (CHOOSE e \in d : e[1] = t)[3] ELSE "full"])]] :
      g \in SeedGeoms, d \in Directives(s[1], s[2]) }

SeedingCalls == UNION { SeedingCallsOf(s) : s \in GridShapes }

\* Lists of reroll regions <<row_init, row_end, col_init, col_end, seed>>, the
\* k-th with a seed of its own that no tile uses.
RerollLists ==
    UNION { [1 .. n -> RerollRowSpans \X RerollColSpans] : n \in 0 .. MaxRerolls }

RerollRegionsOf(spans) ==
    [j \in DOMAIN spans |->
        <<spans[j][1][1], spans[j][1][2], spans[j][2][1], spans[j][2][2], MaxSeed + j>>]

\* Reroll regions, after a seed directive on the first tile, on the grids
\* that are no wider than tall.
RerollCalls ==
    { [BaseCall(s[1], s[2]) EXCEPT
          !.seed_tiles = Grid(s[1], s[2], [t \in Range(s[1]) \X Range(s[2]) |-> IF t = <<0, 0>> THEN <<1>> ELSE NoEntry]),
          !.seed_reroll_regions = [is_none |-> FALSE, list |-> RerollRegionsOf(rr)]] :
      s \in {g \in GridShapes : g[2] <= g[1]}, rr \in RerollLists }

\* Calls the validation is about: a prompt that is no list of lists, rows of
\* differing length, and modes outside the enumeration.
InvalidCalls ==
    { [BaseCall(1, 1) EXCEPT !.prompt = [is_list |-> FALSE, rows |-> << >>]] }
    \cup { [BaseCall(1, 1) EXCEPT !.prompt = [is_list |-> TRUE, rows |-> rl]] :
           rl \in UNION { [1 .. n -> 1 .. MaxGrid] : n \in 1 .. MaxGrid } }
    \cup { [BaseCall(s[1], s[2]) EXCEPT !.seed_tiles_mode = [is_str |-> TRUE, str |-> m, list |-> NoGrid]] :
           s \in GridShapes, m \in Modes \cup {"tile"} }
    \cup { [BaseCall(s[1], s[2]) EXCEPT !.seed_tiles_mode = [is_str |-> FALSE, str |-> "",
                list |-> Grid(s[1], s[2], [t \in Range(s[1]) \X Range(s[2]) |-> IF t = bad THEN "tile" ELSE "exclusive"])]] :
           s \in GridShapes, bad \in Range(MaxGrid) \X Range(MaxGrid) }

Calls == GeometryCalls \cup SchedulerCalls \cup GuidanceCalls \cup SeedingCalls \cup RerollCalls \cup InvalidCalls

(***************************************************************************)
(* StableDiffusionTilingPipeline.__call__                                  *)
(***************************************************************************)

VARIABLES
    args,                        \* the arguments of the call (and the scheduler's kind)
    pc,                          \* where the call is
    error,                       \* the exception that ended it, or "None"
    grid_rows, grid_cols,
    seed_tiles_mode,             \* after normalisation to a grid
    seed_reroll_regions,         \* after defaulting to []
    latents_shape,               \* <<height // 8, width // 8>>
    latents,
    row, col,                    \* the tile loops' counters
    k,                           \* the reroll loop's position (1-based)
    i,                           \* the timestep index
    do_classifier_free_guidance,
    tile_weights,
    tile_latents,                \* the slices taken at line 192 in this timestep, in order
    noise_preds, noise_preds_row,
    noise_pred, contributors,
    calls                        \* calls made so far, per collaborator

vars == <<args, pc, error, grid_rows, grid_cols, seed_tiles_mode, seed_reroll_regions,
          latents_shape, latents, row, col, k, i, do_classifier_free_guidance,
          tile_weights, tile_latents, noise_preds, noise_preds_row, noise_pred,
          contributors, calls>>

validated == <<grid_rows, grid_cols, seed_tiles_mode, seed_reroll_regions>>
counters  == <<row, col, k, i>>
prepared  == <<do_classifier_free_guidance, tile_weights>>
buffers   == <<tile_latents, noise_preds, noise_preds_row, noise_pred, contributors>>

NoCalls == [randn |-> 0, set_timesteps |-> 0, text_encoder |-> 0, unet |-> 0,
            scheduler_step |-> 0, decode |-> 0]

Init ==
    /\ args \in Calls
    /\ pc = "validate"
    /\ error = "None"
    /\ grid_rows = 0 /\ grid_cols = 0
    /\ seed_tiles_mode = << >>
    /\ seed_reroll_regions = << >>
    /\ latents_shape = <<0, 0>>
    /\ latents = << >>
    /\ row = 0 /\ col = 0 /\ k = 1 /\ i = 0
    /\ do_classifier_free_guidance = FALSE
    /\ tile_weights = << >>
    /\ tile_latents = << >>
    /\ noise_preds = << >> /\ noise_preds_row = << >>
    /\ noise_pred = << >> /\ contributors = << >>
    /\ calls = NoCalls

Raise(exception) == pc' = "raised" /\ error' = exception

\* The tile after (r, c) in row-major order; row grid_rows is past the end.
NextTile(r, c) == IF c + 1 < grid_cols THEN <<r, c + 1>> ELSE <<r + 1, 0>>

LastTile(r, c) == r = grid_rows - 1 /\ c = grid_cols - 1

\* Lines 73-78: the mode grid, and whether every mode is in the enumeration.
ModeGrid(mode, prompt_rows) ==
    IF mode.is_str THEN [r \in DOMAIN prompt_rows |-> [c \in 1 .. prompt_rows[r] |-> mode.str]]
    ELSE mode.list

\* The check left out.
ModesValid_Unchecked(grid) == TRUE

ModesValid(grid) == \A r \in DOMAIN grid : \A c \in DOMAIN grid[r] : grid[r][c] \in Modes

\* Lines 67-81.
Validate ==
    /\ pc = "validate"
    /\ IF ~args.prompt.is_list
       THEN Raise("ValueError") /\ UNCHANGED validated
       ELSE LET rows == args.prompt.rows
                cols == rows[1]
                grid == ModeGrid(args.seed_tiles_mode, rows)
            IN  IF \E r \in DOMAIN rows : rows[r] /= cols
                THEN Raise("ValueError") /\ UNCHANGED validated
                ELSE IF ~ModesValid(grid)
                THEN Raise("ValueError") /\ UNCHANGED validated
                ELSE /\ grid_rows' = Len(rows)
                     /\ grid_cols' = cols
                     /\ seed_tiles_mode' = grid
                     /\ seed_reroll_regions' = IF args.seed_reroll_regions.is_none THEN << >>
                                               ELSE args.seed_reroll_regions.list
                     /\ pc' = "randn"
                     /\ UNCHANGED error
    /\ UNCHANGED <<args, latents_shape, latents, counters, prepared, buffers, calls>>

\* Lines 92-94.
CanvasShape(rows, cols, tile_height, tile_width, tile_row_overlap, tile_col_overlap) ==
    LET height == tile_height + (rows - 1) * (tile_height - tile_row_overlap)
        width  == tile_width + (cols - 1) * (tile_width - tile_col_overlap)
    IN  <<height \div Downscale, width \div Downscale>>

\* Lines 92-96.
DrawLatents ==
    /\ pc = "randn"
    /\ latents_shape' = CanvasShape(grid_rows, grid_cols, args.tile_height, args.tile_width,
                                    args.tile_row_overlap, args.tile_col_overlap)
    /\ latents' = randn(args.seed, latents_shape'[1], latents_shape'[2])
    /\ calls' = [calls EXCEPT !.randn = @ + 1]
    /\ pc' = "seed_tiles"
    /\ row' = 0 /\ col' = 0
    /\ UNCHANGED <<args, error, validated, k, i, prepared, buffers>>

\* latents[:, :, row_init:row_end, col_init:col_end] = torch.randn(shape, generator)
\* with shape (row_end - row_init, col_end - col_init): torch.randn raises on a
\* negative size, and the assignment on a shape that does not fit the slice.
CanOverwrite(shape, idx) ==
    /\ idx[2] - idx[1] >= 0
    /\ idx[4] - idx[3] >= 0
    /\ Fits(<<idx[2] - idx[1], idx[4] - idx[3]>>, SliceRegion(shape, idx[1], idx[2], idx[3], idx[4]))

Overwrite(t, shape, idx, seed) ==
    SetSlice(t, SliceRegion(shape, idx[1], idx[2], idx[3], idx[4]),
             randn(seed, idx[2] - idx[1], idx[4] - idx[3]),
             <<idx[2] - idx[1], idx[4] - idx[3]>>)

\* The two modes taken for each other.
SeedRegion_Swapped(mode, r, c) ==
    IF mode /= "full"
    THEN tile2latent_indices(r, c, args.tile_width, args.tile_height,
                             args.tile_row_overlap, args.tile_col_overlap)
    ELSE tile2latent_exclusive_indices(r, c, args.tile_width, args.tile_height,
                                       args.tile_row_overlap, args.tile_col_overlap,
                                       grid_rows, grid_cols)

\* Lines 104-107: the region a seeded tile overwrites.
SeedRegion(mode, r, c) ==
    IF mode = "full"
    THEN tile2latent_indices(r, c, args.tile_width, args.tile_height,
                             args.tile_row_overlap, args.tile_col_overlap)
    ELSE tile2latent_exclusive_indices(r, c, args.tile_width, args.tile_height,
                                       args.tile_row_overlap, args.tile_col_overlap,
                                       grid_rows, grid_cols)

\* Lines 99-110: one pass of the tile loop, or its end.
SeedTile ==
    /\ pc = "seed_tiles"
    /\ IF args.seed_tiles = NoGrid \/ row = grid_rows
       THEN /\ pc' = "reroll"
            /\ k' = 1
            /\ UNCHANGED <<error, latents, row, col, calls>>
       ELSE LET seed_tile == args.seed_tiles[row + 1][col + 1]
                idx == SeedRegion(seed_tiles_mode[row + 1][col + 1], row, col)
                next == NextTile(row, col)
            IN  IF seed_tile = NoEntry
                THEN /\ row' = next[1] /\ col' = next[2]
                     /\ UNCHANGED <<pc, error, latents, k, calls>>
                ELSE IF idx = NoSegment
                THEN Raise("ValueError") /\ UNCHANGED <<latents, row, col, k, calls>>
                ELSE IF ~CanOverwrite(latents_shape, idx)
                THEN Raise("RuntimeError") /\ UNCHANGED <<latents, row, col, k, calls>>
                ELSE /\ latents' = Overwrite(latents, latents_shape, idx, seed_tile[1])
                     /\ calls' = [calls EXCEPT !.randn = @ + 1]
                     /\ row' = next[1] /\ col' = next[2]
                     /\ UNCHANGED <<pc, error, k>>
    /\ UNCHANGED <<args, validated, latents_shape, i, prepared, buffers>>

\* Lines 113-117: one pass of the reroll loop, or its end.
Reroll ==
    /\ pc = "reroll"
    /\ IF k > Len(seed_reroll_regions)
       THEN /\ pc' = "set_timesteps"
            /\ UNCHANGED <<error, latents, k, calls>>
       ELSE LET region == seed_reroll_regions[k]
                idx == pixel2latent_indices(region[1], region[2], region[3], region[4])
            IN  IF ~CanOverwrite(latents_shape, idx)
                THEN Raise("RuntimeError") /\ UNCHANGED <<latents, k, calls>>
                ELSE /\ latents' = Overwrite(latents, latents_shape, idx, region[5])
                     /\ calls' = [calls EXCEPT !.randn = @ + 1]
                     /\ k' = k + 1
                     /\ UNCHANGED <<pc, error>>
    /\ UNCHANGED <<args, validated, latents_shape, row, col, i, prepared, buffers>>

\* Lines 125-129: the scheduler's timesteps, and the latents times sigmas[0]
\* under an LMSDiscreteScheduler.
SetTimesteps ==
    /\ pc = "set_timesteps"
    /\ calls' = [calls EXCEPT !.set_timesteps = @ + 1]
    /\ latents' = IF args.scheduler = "LMSDiscreteScheduler"
                  THEN [c \in DOMAIN latents |-> <<"mul_sigma", latents[c]>>]
                  ELSE latents
    /\ pc' = "text_embeddings"
    /\ UNCHANGED <<args, error, validated, latents_shape, counters, prepared, buffers>>

\* Lines 132-170: one text encoder call per tile, and one more per tile for
\* the unconditional embeddings under classifier-free guidance.
EncodePrompts ==
    /\ pc = "text_embeddings"
    /\ do_classifier_free_guidance' = (args.guidance_scale > 10)
    /\ calls' = [calls EXCEPT !.text_encoder =
                    @ + grid_rows * grid_cols
                      + (IF args.guidance_scale > 10 THEN grid_rows * grid_cols ELSE 0)]
    /\ pc' = "gaussian_weights"
    /\ UNCHANGED <<args, error, validated, latents_shape, latents, counters, tile_weights, buffers>>

\* Line 182.
GaussianWeights ==
    /\ pc = "gaussian_weights"
    /\ tile_weights' = gaussian_weights(args.tile_width, args.tile_height)
    /\ pc' = "unet"
    /\ row' = 0 /\ col' = 0 /\ i' = 0
    /\ tile_latents' = << >>
    /\ noise_preds' = << >> /\ noise_preds_row' = << >>
    /\ UNCHANGED <<args, error, validated, latents_shape, latents, k,
                   do_classifier_free_guidance, noise_pred, contributors, calls>>

TileRegion(r, c) ==
    LET idx == tile2latent_indices(r, c, args.tile_width, args.tile_height,
                                   args.tile_row_overlap, args.tile_col_overlap)
    IN  SliceRegion(latents_shape, idx[1], idx[2], idx[3], idx[4])

\* Line 192: latents[:, :, px_row_init:px_row_end, px_col_init:px_col_end].
TileLatents(r, c) ==
    LET reg == TileRegion(r, c)
    IN  [cell \in (reg[1] .. reg[2] - 1) \X (reg[3] .. reg[4] - 1) |-> latents[cell]]

\* Line 204.
Guidance(r, c) ==
    IF args.guidance_scale_tiles = NoGrid THEN args.guidance_scale
    ELSE IF args.guidance_scale_tiles[r + 1][c + 1] = NoEntry THEN args.guidance_scale
    ELSE args.guidance_scale_tiles[r + 1][c + 1][1]

\* Lines 200-205: the tile's prediction, of the shape of its input; NaN
\* anywhere in the input makes the network's output NaN.
TilePrediction(r, c) ==
    LET reg == TileRegion(r, c)
    IN  [tile |-> <<r, c>>,
         shape |-> RegionShape(reg),
         guidance |-> Guidance(r, c),
         nan |-> \E cell \in DOMAIN latents : InRegion(cell, reg) /\ latents[cell] = NaN]

\* Lines 202-206: the row's predictions after this tile's.
AppendPrediction(preds_row, pred) ==
    IF do_classifier_free_guidance THEN Append(preds_row, pred) ELSE preds_row

\* Lines 188-207: one tile of the inference loop.
UnetTile ==
    /\ pc = "unet"
    /\ calls' = [calls EXCEPT !.unet = @ + 1]
    /\ tile_latents' = Append(tile_latents, TileLatents(row, col))
    /\ LET preds_row == AppendPrediction(IF col = 0 THEN << >> ELSE noise_preds_row,
                                         TilePrediction(row, col))
           next == NextTile(row, col)
       IN  /\ noise_preds_row' = preds_row
           /\ noise_preds' = IF col = grid_cols - 1 THEN Append(noise_preds, preds_row)
                             ELSE noise_preds
           /\ IF LastTile(row, col)
              THEN pc' = "zeros" /\ UNCHANGED <<row, col>>
              ELSE pc' = "unet" /\ row' = next[1] /\ col' = next[2]
    /\ UNCHANGED <<args, error, validated, latents_shape, latents, k, i, prepared,
                   noise_pred, contributors>>

ZeroPrediction == [sum |-> << >>, nan |-> FALSE, normalized |-> FALSE]

\* The weight sums allocated once and kept from one timestep to the next.
zeros_contributors_Kept ==
    IF contributors = << >> THEN [c \in DOMAIN latents |-> << >>] ELSE contributors

\* Line 210: torch.zeros(latents.shape).
zeros_contributors == [c \in DOMAIN latents |-> << >>]

\* Lines 209-210.
ZeroBuffers ==
    /\ pc = "zeros"
    /\ noise_pred' = [c \in DOMAIN latents |-> ZeroPrediction]
    /\ contributors' = zeros_contributors
    /\ pc' = "stitch"
    /\ row' = 0 /\ col' = 0
    /\ UNCHANGED <<args, error, validated, latents_shape, latents, k, i, prepared,
                   tile_latents, noise_preds, noise_preds_row, calls>>

\* The shape of a product of two tensors, or << >> when they do not broadcast.
BroadcastAxis(a, b) == IF a = b \/ b = 1 THEN a ELSE IF a = 1 THEN b ELSE -1

BroadcastShape(a, b) ==
    IF BroadcastAxis(a[1], b[1]) < 0 \/ BroadcastAxis(a[2], b[2]) < 0 THEN << >>
    ELSE <<BroadcastAxis(a[1], b[1]), BroadcastAxis(a[2], b[2])>>

\* Lines 215-216 can run: the product fits the region of noise_pred, and the
\* mask fits the region of contributors.
CanStitch(pred_shape, weights_shape, reg) ==
    /\ BroadcastShape(pred_shape, weights_shape) /= << >>
    /\ Fits(BroadcastShape(pred_shape, weights_shape), reg)
    /\ Fits(weights_shape, reg)

\* Lines 212-216: one tile of the stitching loop.  A buffer cell holds the
\* terms added to it: <<row, col, weight>> for a tile's prediction times its
\* mask entry, and the mask entries themselves in contributors.
StitchTile ==
    /\ pc = "stitch"
    /\ LET reg == TileRegion(row, col)
           wshape == WeightsShape(args.tile_width, args.tile_height)
           next == NextTile(row, col)
       IN  IF row + 1 > Len(noise_preds) \/ col + 1 > Len(noise_preds[row + 1])
           THEN Raise("IndexError") /\ UNCHANGED <<row, col, noise_pred, contributors>>
           ELSE IF ~CanStitch(noise_preds[row + 1][col + 1].shape, wshape, reg)
           THEN Raise("RuntimeError") /\ UNCHANGED <<row, col, noise_pred, contributors>>
           ELSE /\ noise_pred' = [c \in DOMAIN noise_pred |->
                      IF InRegion(c, reg)
                      THEN [noise_pred[c] EXCEPT
                              !.sum = Append(@, <<row, col, tile_weights[SourceIndex(c, reg, wshape)]>>),
                              !.nan = @ \/ noise_preds[row + 1][col + 1].nan]
                      ELSE noise_pred[c]]
                /\ contributors' = [c \in DOMAIN contributors |->
                      IF InRegion(c, reg)
                      THEN Append(contributors[c], tile_weights[SourceIndex(c, reg, wshape)])
                      ELSE contributors[c]]
                /\ UNCHANGED error
                /\ IF LastTile(row, col)
                   THEN pc' = "normalize" /\ UNCHANGED <<row, col>>
                   ELSE pc' = "stitch" /\ row' = next[1] /\ col' = next[2]
    /\ UNCHANGED <<args, validated, latents_shape, latents, k, i, prepared,
                   tile_latents, noise_preds, noise_preds_row, calls>>

\* Line 218, noise_pred /= contributors: a float division raises nothing, and
\* where the weight sum is zero the quotient is NaN (0/0) or infinite.
Divide(prediction, weight_sum) ==
    [prediction EXCEPT !.nan = @ \/ weight_sum = << >>, !.normalized = TRUE]

Normalize ==
    /\ pc = "normalize"
    /\ noise_pred' = [c \in DOMAIN noise_pred |-> Divide(noise_pred[c], contributors[c])]
    /\ pc' = "scheduler_step"
    /\ UNCHANGED <<args, error, validated, latents_shape, latents, counters, prepared,
                   tile_latents, noise_preds, noise_preds_row, contributors, calls>>

AfterStep_OneMore(step) == IF step < args.num_inference_steps THEN "unet" ELSE "decode"

\* Where the timestep loop goes after step index `step`.
AfterStep(step) == IF step + 1 < args.num_inference_steps THEN "unet" ELSE "decode"

\* Lines 221-224, and the loop's next timestep or its end.
SchedulerStep ==
    /\ pc = "scheduler_step"
    /\ calls' = [calls EXCEPT !.scheduler_step = @ + 1]
    /\ latents' = [c \in DOMAIN latents |->
                      IF noise_pred[c].nan \/ latents[c] = NaN THEN NaN
                      ELSE <<"prev_sample", i>>]
    /\ i' = i + 1
    /\ pc' = AfterStep(i)
    /\ row' = 0 /\ col' = 0
    /\ tile_latents' = << >>
    /\ noise_preds' = << >> /\ noise_preds_row' = << >>
    /\ UNCHANGED <<args, error, validated, latents_shape, k, prepared, noise_pred, contributors>>

\* Lines 227-229.
Decode ==
    /\ pc = "decode"
    /\ calls' = [calls EXCEPT !.decode = @ + 1]
    /\ pc' = "done"
    /\ UNCHANGED <<args, error, validated, latents_shape, latents, counters, prepared, buffers>>

Next ==
    \/ Validate
    \/ DrawLatents
    \/ SeedTile
    \/ Reroll
    \/ SetTimesteps
    \/ EncodePrompts
    \/ GaussianWeights
    \/ UnetTile
    \/ ZeroBuffers
    \/ StitchTile
    \/ Normalize
    \/ SchedulerStep
    \/ Decode

Spec == Init /\ [][Next]_vars

(***************************************************************************)
(* Properties                                                              *)
(***************************************************************************)

Tiles == Range(grid_rows) \X Range(grid_cols)

NTiles == grid_rows * grid_cols

Guided == args.guidance_scale > 10

InLoop == pc \in {"unet", "zeros", "stitch", "normalize", "scheduler_step"}

\* How many terms of tile t a cell of the prediction-sum buffer holds.
TermsOf(cell, t) ==
    Cardinality({n \in DOMAIN noise_pred[cell].sum :
                    noise_pred[cell].sum[n][1] = t[1] /\ noise_pred[cell].sum[n][2] = t[2]})

\* C1: under classifier-free guidance, at every timestep the network is
\* called once per tile and the scheduler once per step, in that order: while
\* the tiles of step i are inferred, i steps and i * tiles + (tiles done)
\* network calls have been made; from the end of the inference loop to the
\* scheduler step, (i + 1) * tiles network calls; when the scheduler is about
\* to step, every tile's weighted prediction is in the prediction sum exactly
\* once at every cell of its region, its mask is in the weight sum, and the
\* sum has been divided; a finished run made tiles * steps network calls and
\* `steps` scheduler steps.
C1_OncePerTilePerStep ==
    Guided =>
        /\ InLoop => calls.scheduler_step = i /\ i < args.num_inference_steps
        /\ pc = "unet" => calls.unet = i * NTiles + row * grid_cols + col
        /\ pc \in {"zeros", "stitch", "normalize", "scheduler_step"} =>
              calls.unet = (i + 1) * NTiles
        /\ pc = "scheduler_step" =>
              /\ \A c \in DOMAIN noise_pred : noise_pred[c].normalized
              /\ \A t \in Tiles : \A c \in DOMAIN noise_pred :
                    InRegion(c, TileRegion(t[1], t[2])) =>
                        TermsOf(c, t) = 1 /\ Len(contributors[c]) = Len(noise_pred[c].sum)
        /\ pc \in {"decode", "done"} =>
              /\ calls.unet = NTiles * args.num_inference_steps
              /\ calls.scheduler_step = args.num_inference_steps

C1_Witness ==
    /\ pc = "done" /\ Guided
    /\ NTiles > 1 /\ args.num_inference_steps > 1
    /\ calls.unet = NTiles * args.num_inference_steps

\* C2 (the claim as stated; the code violates it): without guidance every
\* tile still contributes one prediction per step, so that once the inference
\* loop of a step is over noise_preds holds one prediction for every tile,
\* and the stitching loop never fails to find one.
C2_UnguidedTileContributes ==
    ~Guided =>
        /\ pc \in {"zeros", "stitch", "normalize", "scheduler_step"} =>
              /\ Len(noise_preds) = grid_rows
              /\ \A r \in DOMAIN noise_preds : Len(noise_preds[r]) = grid_cols
        /\ error /= "IndexError"

\* The inclusive latent region of tile t, as _tile2latent_indices returns it.
Inclusive(t) ==
    tile2latent_indices(t[1], t[2], args.tile_width, args.tile_height,
                        args.tile_row_overlap, args.tile_col_overlap)

ValidGeometry ==
    /\ args.tile_height > 0 /\ args.tile_width > 0
    /\ 0 <= args.tile_row_overlap /\ args.tile_row_overlap < args.tile_height
    /\ 0 <= args.tile_col_overlap /\ args.tile_col_overlap < args.tile_width

\* C3: with positive tile sizes and 0 <= overlap < tile size, once the canvas
\* is drawn every cell of the canvas lies in some tile's inclusive latent
\* region and no region reaches outside the canvas; and when the stitching
\* loop of a step is over, the weight sum of every cell holds at least one
\* mask entry (each a positive number), so it is strictly positive.
C3_TilesCoverCanvas ==
    (ValidGeometry /\ calls.randn > 0) =>
        /\ \A c \in Cells(latents_shape[1], latents_shape[2]) :
              \E t \in Tiles : LET reg == Inclusive(t) IN InRegion(c, reg)
        /\ \A t \in Tiles :
              LET reg == Inclusive(t)
              IN  /\ 0 <= reg[1] /\ reg[2] <= latents_shape[1]
                  /\ 0 <= reg[3] /\ reg[4] <= latents_shape[2]
        /\ pc = "normalize" => \A c \in DOMAIN contributors : Len(contributors[c]) > 0

C3_Witness ==
    /\ ValidGeometry /\ pc = "normalize"
    /\ grid_rows = 2 /\ grid_cols = 2
    /\ args.tile_row_overlap > 0 /\ args.tile_height = 12
    /\ \E c \in DOMAIN contributors : Len(contributors[c]) = 4

Exclusive(t) ==
    tile2latent_exclusive_indices(t[1], t[2], args.tile_width, args.tile_height,
                                  args.tile_row_overlap, args.tile_col_overlap,
                                  grid_rows, grid_cols)

\* The seed directive of tile t, if any.
SeedOf(t) == IF args.seed_tiles = NoGrid THEN NoEntry ELSE args.seed_tiles[t[1] + 1][t[2] + 1]

SeededTiles == {t \in Tiles : SeedOf(t) /= NoEntry}

\* C4 (the claim as stated; the code violates it): when the seeding loop
\* comes to a tile with an `exclusive` directive, the exclusive latent region
\* computed for it (when one is returned) holds no cell of the inclusive
\* region of any other tile of the grid.
C4_ExclusiveSharesNoCell ==
    (pc = "seed_tiles" /\ row < grid_rows /\ SeedOf(<<row, col>>) /= NoEntry
        /\ seed_tiles_mode[row + 1][col + 1] = "exclusive"
        /\ Exclusive(<<row, col>>) /= NoSegment) =>
      \A u \in Tiles \ {<<row, col>>} : \A c \in DOMAIN latents :
          ~(InRegion(c, Exclusive(<<row, col>>)) /\ InRegion(c, Inclusive(u)))

\* Element of the draw made for latent region idx from `seed` that lands on
\* canvas cell c: the draw has the region's shape, and c its offset in it.
DrawnAt(seed, idx, c) ==
    <<"randn", seed, idx[2] - idx[1], idx[4] - idx[3], c[1] - idx[1], c[2] - idx[3]>>

RowMajor(t) == t[1] * grid_cols + t[2]

SeededOver(c) == {t \in SeededTiles : InRegion(c, Inclusive(t))}

LastSeededOver(c) == CHOOSE t \in SeededOver(c) : \A u \in SeededOver(c) : RowMajor(u) <= RowMajor(t)

\* What full-mode tile seeding leaves in cell c: the draw of the row-major
\* last seeded tile over c, or the canvas-wide draw.
FullSeededValue(c) ==
    IF SeededOver(c) /= {}
    THEN DrawnAt(SeedOf(LastSeededOver(c))[1], Inclusive(LastSeededOver(c)), c)
    ELSE DrawnAt(args.seed, <<0, latents_shape[1], 0, latents_shape[2]>>, c)

AllFull == \A t \in SeededTiles : seed_tiles_mode[t[1] + 1][t[2] + 1] = "full"

\* C5: when the tile seeding loop is over and every directive was in `full`
\* mode, each cell inside the inclusive region of a seeded tile holds the
\* element, at the cell's offset in the tile, of the draw made for the
\* row-major last seeded tile containing it; every other cell holds the
\* canvas-wide draw.
C5_FullSeedLastWins ==
    (pc = "reroll" /\ k = 1 /\ AllFull) =>
        \A c \in DOMAIN latents : latents[c] = FullSeededValue(c)

\* A 1x2 grid with overlap, seeded A then B: the overlap column holds B's draw.
C5_Witness ==
    /\ pc = "reroll" /\ k = 1 /\ AllFull
    /\ grid_rows = 1 /\ grid_cols = 2
    /\ SeededTiles = {<<0, 0>>, <<0, 1>>}
    /\ SeedOf(<<0, 0>>) /= SeedOf(<<0, 1>>)
    /\ \E c \in DOMAIN latents :
          /\ InRegion(c, Inclusive(<<0, 0>>)) /\ InRegion(c, Inclusive(<<0, 1>>))
          /\ latents[c] = DrawnAt(SeedOf(<<0, 1>>)[1], Inclusive(<<0, 1>>), c)

\* The latent rectangle of the j-th reroll region: its pixel coordinates
\* floor-divided by 8.
RerollRect(j) ==
    pixel2latent_indices(seed_reroll_regions[j][1], seed_reroll_regions[j][2],
                         seed_reroll_regions[j][3], seed_reroll_regions[j][4])

RerollsOver(c) == {j \in DOMAIN seed_reroll_regions : InRegion(c, RerollRect(j))}

LastRerollOver(c) == CHOOSE j \in RerollsOver(c) : \A n \in RerollsOver(c) : n <= j

\* C6 (the claim as stated; the code violates it): when the reroll loop is
\* over (all directives in `full` mode), each cell inside a reroll rectangle
\* holds the draw of the last listed region containing it, and each cell in no
\* reroll rectangle is as tile seeding left it.
C6_RerollLastWins ==
    (pc = "set_timesteps" /\ AllFull) =>
        \A c \in DOMAIN latents :
            latents[c] = IF RerollsOver(c) /= {}
                         THEN DrawnAt(seed_reroll_regions[LastRerollOver(c)][5],
                                      RerollRect(LastRerollOver(c)), c)
                         ELSE FullSeededValue(c)

\* Whether reroll region j lies inside the canvas (pixel coordinates).
RerollInCanvas(j) ==
    /\ 0 <= seed_reroll_regions[j][1] /\ seed_reroll_regions[j][1] <= seed_reroll_regions[j][2]
    /\ seed_reroll_regions[j][2] <= args.tile_height + (grid_rows - 1) * (args.tile_height - args.tile_row_overlap)
    /\ 0 <= seed_reroll_regions[j][3] /\ seed_reroll_regions[j][3] <= seed_reroll_regions[j][4]
    /\ seed_reroll_regions[j][4] <= args.tile_width + (grid_cols - 1) * (args.tile_width - args.tile_col_overlap)

\* What C6 says of the calls whose reroll regions all lie inside the canvas
\* (it holds of these: the claim fails only on regions the call should have
\* refused).
RerollLastWinsInCanvas ==
    (\A j \in DOMAIN seed_reroll_regions : RerollInCanvas(j)) => C6_RerollLastWins

\* C7 (the claim as stated; the code violates it): the blend mask is
\* symmetric along both axes, and its largest weight (the least scaled squared
\* distance) is attained only at the centre of the tile: the cells next to
\* the geometric centre ((H - 1) / 2, (W - 1) / 2).
C7_MaskSymmetricCentred ==
    pc \in {"unet", "zeros", "stitch", "normalize", "scheduler_step", "decode", "done"} =>
        LET shape == WeightsShape(args.tile_width, args.tile_height)
            H == shape[1]
            W == shape[2]
            Centre(c) == /\ -1 <= 2 * c[1] - (H - 1) /\ 2 * c[1] - (H - 1) <= 1
                         /\ -1 <= 2 * c[2] - (W - 1) /\ 2 * c[2] - (W - 1) <= 1
        IN  /\ \A c \in DOMAIN tile_weights :
                  /\ tile_weights[c] = tile_weights[<<H - 1 - c[1], c[2]>>]
                  /\ tile_weights[c] = tile_weights[<<c[1], W - 1 - c[2]>>]
            /\ \A c \in DOMAIN tile_weights :
                  (\A d \in DOMAIN tile_weights : tile_weights[c] <= tile_weights[d]) => Centre(c)

RaggedPrompt ==
    args.prompt.is_list /\ \E r \in DOMAIN args.prompt.rows : args.prompt.rows[r] /= args.prompt.rows[1]

UnknownMode ==
    IF args.seed_tiles_mode.is_str THEN args.seed_tiles_mode.str \notin {"full", "exclusive"}
    ELSE \E r \in DOMAIN args.seed_tiles_mode.list : \E c \in DOMAIN args.seed_tiles_mode.list[r] :
            args.seed_tiles_mode.list[r][c] \notin {"full", "exclusive"}

\* C8: a call whose prompt rows differ in length, or whose seed_tiles_mode
\* holds a value other than "full" and "exclusive", never leaves validation
\* but by raising ValueError, and no noise is drawn and no collaborator (text
\* encoder, network, scheduler, autoencoder) is called.
C8_InvalidCallRaisesFirst ==
    (RaggedPrompt \/ UnknownMode) =>
        /\ pc \in {"validate", "raised"}
        /\ pc = "raised" => error = "ValueError"
        /\ calls = NoCalls
        /\ latents = << >>

C8_Witness ==
    /\ pc = "raised" /\ error = "ValueError" /\ calls = NoCalls
    /\ args.prompt.is_list /\ ~RaggedPrompt /\ UnknownMode
    /\ ~args.seed_tiles_mode.is_str

\* Whether the j-th reroll region of the call reaches outside the canvas.
RerollOutside(j) ==
    LET region == args.seed_reroll_regions.list[j]
        rows == Len(args.prompt.rows)
        cols == args.prompt.rows[1]
        height == args.tile_height + (rows - 1) * (args.tile_height - args.tile_row_overlap)
        width == args.tile_width + (cols - 1) * (args.tile_width - args.tile_col_overlap)
    IN  \/ region[1] < 0 \/ region[2] < 0 \/ region[3] < 0 \/ region[4] < 0
        \/ region[1] > height \/ region[2] > height
        \/ region[3] > width \/ region[4] > width

\* C9 (the claim as stated; the code violates it): a call with a reroll
\* region reaching outside the canvas fails before the text encoder or the
\* network is called: it never gets past the reroll loop.
C9_OutOfRangeFailsFast ==
    (args.prompt.is_list /\ ~RaggedPrompt
        /\ \E j \in DOMAIN args.seed_reroll_regions.list : RerollOutside(j)) =>
        /\ pc \in {"validate", "randn", "seed_tiles", "reroll", "raised"}
        /\ calls.text_encoder = 0 /\ calls.unet = 0

\* C10 (the claim as stated; the code violates it): a step whose weight sum
\* is zero at some cell ends in an error and its quotient never reaches the
\* scheduler, so once the scheduler has stepped no latent is NaN or infinite.
C10_ZeroWeightSumIsError ==
    calls.scheduler_step > 0 => \A c \in DOMAIN latents : latents[c] /= NaN


\* The scale the tile is to be combined with: its own override where the
\* grid of overrides has one, the pipeline-wide guidance scale otherwise.
ScaleOf(t) ==
    IF args.guidance_scale_tiles /= NoGrid /\ args.guidance_scale_tiles[t[1] + 1][t[2] + 1] /= NoEntry
    THEN args.guidance_scale_tiles[t[1] + 1][t[2] + 1][1]
    ELSE args.guidance_scale

Overridden(t) ==
    args.guidance_scale_tiles /= NoGrid /\ args.guidance_scale_tiles[t[1] + 1][t[2] + 1] /= NoEntry

\* The prediction kept for tile t is the combination with the tile's scale.
CombinedWithOwnScale(t) ==
    /\ t[1] + 1 <= Len(noise_preds)
    /\ t[2] + 1 <= Len(noise_preds[t[1] + 1])
    /\ noise_preds[t[1] + 1][t[2] + 1].tile = t
    /\ noise_preds[t[1] + 1][t[2] + 1].guidance = ScaleOf(t)

\* C11 (the claim as stated; the code violates it): at every step, once the
\* tiles are inferred, the prediction kept for every tile is the combination
\* unconditional + scale * (conditional - unconditional) with the tile's own
\* override where one is supplied and the pipeline-wide guidance scale
\* otherwise, whatever the pipeline-wide guidance scale is, and the call does
\* not fail for want of a tile's prediction.
C11_PerTileGuidance ==
    /\ pc \in {"zeros", "stitch", "normalize", "scheduler_step"} =>
          \A t \in Tiles : CombinedWithOwnScale(t)
    /\ error /= "IndexError"

\* What the code does keep of C11: when the pipeline-wide guidance scale is
\* above 1.0, every tile is combined with its own scale.
PerTileGuidanceWhenGuided ==
    Guided /\ pc \in {"zeros", "stitch", "normalize", "scheduler_step"} =>
        \A t \in Tiles : CombinedWithOwnScale(t)

\* An override is supplied and the pipeline-wide guidance is off: the
\* inference loop ends with no prediction kept for the overridden tile.
OverrideDropped ==
    /\ pc = "zeros" /\ ~Guided
    /\ \E t \in Tiles : Overridden(t) /\ ~CombinedWithOwnScale(t)


\* Grid positions, those past the explored grids included.
Positions == Range(MaxGrid + 1) \X Range(MaxGrid + 1)

\* The pixel extent <<row start, row end, column start, column end>> of the
\* tile at position t under the call's geometry.
PixelExtent(t) ==
    tile2pixel_indices(t[1], t[2], args.tile_width, args.tile_height,
                       args.tile_row_overlap, args.tile_col_overlap)

RowStride == args.tile_height - args.tile_row_overlap
ColStride == args.tile_width - args.tile_col_overlap

\* C12: with overlap < tile size on each axis, the tile at (row, col) starts
\* at row * (tile_height - tile_row_overlap), col * (tile_width -
\* tile_col_overlap) and ends one tile size further; the start offsets
\* divided by the strides give back (row, col), and no two grid positions
\* have the same pixel extent.
C12_TilePixelRoundTrip ==
    (args.tile_row_overlap < args.tile_height /\ args.tile_col_overlap < args.tile_width) =>
        /\ \A t \in Positions :
              LET px == PixelExtent(t)
              IN  /\ px[1] = t[1] * RowStride
                  /\ px[2] = px[1] + args.tile_height
                  /\ px[3] = t[2] * ColStride
                  /\ px[4] = px[3] + args.tile_width
                  /\ px[1] \div RowStride = t[1]
                  /\ px[3] \div ColStride = t[2]
        /\ Cardinality({PixelExtent(t) : t \in Positions}) = Cardinality(Positions)

\* The last tile of a 2 x 2 grid is being stitched, under a geometry whose
\* sizes and strides are no multiples of 8 on one axis and a negative overlap
\* on the other; its extent is off the origin on both axes.
C12_Witness ==
    /\ pc = "stitch" /\ row = 1 /\ col = 1
    /\ args.tile_height = 12 /\ args.tile_row_overlap = 4
    /\ args.tile_width = 16 /\ args.tile_col_overlap = -8
    /\ PixelExtent(<<row, col>>) = <<8, 20, 24, 40>>


\* The n-th tile of the tile loops (1-based, row-major).
NthTile(n) == <<(n - 1) \div grid_cols, (n - 1) % grid_cols>>

\* The tiles inferred so far in the current timestep.
TilesInferred == IF pc = "unet" THEN row * grid_cols + col ELSE NTiles

\* The tiles stitched so far in the current timestep.
Stitched == {t \in Tiles : pc = "stitch" => RowMajor(t) < row * grid_cols + col}

\* C13: within a timestep every tile's network input is a slice of one and
\* the same canvas, the one the scheduler step of the timestep before left
\* (the initial latents at the first timestep): the slices taken so far in
\* the timestep, one per tile inferred, are the slices of the canvas as it
\* is now, up to the scheduler step; and the two buffers start the
\* stitching of every timestep at zero and hold, at any point of it, the
\* terms of the tiles stitched in this timestep and nothing else.
C13_TilesSeeSameCanvas ==
    /\ InLoop =>
          /\ Len(tile_latents) = TilesInferred
          /\ \A n \in DOMAIN tile_latents :
                LET t == NthTile(n) IN tile_latents[n] = TileLatents(t[1], t[2])
          /\ \A c \in DOMAIN latents :
                IF i = 0 THEN latents[c][1] /= "prev_sample"
                ELSE latents[c] \in {NaN, <<"prev_sample", i - 1>>}
    /\ pc = "stitch" /\ row = 0 /\ col = 0 =>
          \A c \in DOMAIN latents : noise_pred[c] = ZeroPrediction /\ contributors[c] = << >>
    /\ pc \in {"stitch", "normalize", "scheduler_step"} =>
          LET regions == [t \in Stitched |-> TileRegion(t[1], t[2])]
          IN  \A c \in DOMAIN latents :
                LET over == Cardinality({t \in Stitched : InRegion(c, regions[t])})
                IN  Len(noise_pred[c].sum) = over /\ Len(contributors[c]) = over

\* The second timestep of a grid of overlapping tiles is about to end: the
\* slices of two tiles share a cell, which holds the first step's output.
C13_Witness ==
    /\ pc = "scheduler_step" /\ i = 1 /\ NTiles > 1
    /\ Len(tile_latents) = NTiles
    /\ \E c \in DOMAIN latents :
          /\ c \in DOMAIN tile_latents[1] /\ c \in DOMAIN tile_latents[2]
          /\ tile_latents[1][c] = <<"prev_sample", 0>>
          /\ Len(contributors[c]) > 1


\* <<rows, columns>> of the inclusive latent region of tile t.
InclusiveShape(t) == <<Inclusive(t)[2] - Inclusive(t)[1], Inclusive(t)[4] - Inclusive(t)[3]>>

MaskShape == <<args.tile_height \div 8, args.tile_width \div 8>>

ShapesAgree ==
    /\ \A t \in Tiles : InclusiveShape(t) = MaskShape
    /\ ~(error = "RuntimeError" /\ calls.unet > 0)

\* C14 (the claim as stated; the code violates it): for every geometry with
\* positive tile sizes and 0 <= overlap < tile size, multiples of 8 or not,
\* the inclusive latent region of every tile of the grid has tile_height // 8
\* rows and tile_width // 8 columns, the shape of the blend mask, and the
\* accumulation of a tile's weighted prediction never fails on a shape.
C14_RegionShapeIsMaskShape ==
    ValidGeometry /\ calls.randn > 0 => ShapesAgree

MultiplesOf8 ==
    /\ args.tile_height % 8 = 0 /\ args.tile_row_overlap % 8 = 0
    /\ args.tile_width % 8 = 0 /\ args.tile_col_overlap % 8 = 0

\* What the code does keep of C14: the shapes agree when the tile sizes and
\* the overlaps are multiples of 8.
RegionShapeIsMaskShapeMultiplesOf8 ==
    ValidGeometry /\ MultiplesOf8 /\ calls.randn > 0 => ShapesAgree

\* A tile of 20 pixels at a stride of 12 has a region of 3 latent rows under
\* a mask of 2, and its accumulation raises.
ShapeMismatchRaises ==
    /\ pc = "raised" /\ error = "RuntimeError" /\ calls.unet > 0
    /\ ValidGeometry
    /\ \E t \in Tiles : InclusiveShape(t) /= MaskShape

\* A tile of 12 pixels at a stride of 4 has a region of 2 latent rows under
\* a mask of 1 row, which is broadcast over both: the step goes on.
ShapeMismatchBroadcast ==
    /\ pc = "scheduler_step" /\ ValidGeometry
    /\ \E t \in Tiles : InclusiveShape(t) /= MaskShape

=============================================================================
